---- MODULE Spec2Model ----
(***************************************************************************)
(* Model of the SQL editor buffer of datafusion-dft and of the handlers    *)
(* that dispatch the application's events:                                 *)
(*   src/src/app/editor/mod.rs     Line, Input, Editor                     *)
(*   src/src/app/handlers/edit.rs  edit_mode_handler                       *)
(*   src/src/app/handlers/mod.rs   app_event_handler and the tab handlers  *)
(*   src/src/cli/mod.rs            DftCli, parse_valid_file                *)
(*                                                                         *)
(* A Line is a Rust String.  It is modelled as a sequence of characters,   *)
(* each character a token with a UTF-8 byte length and a display width,    *)
(* because the code mixes the two units: cursor_column is assigned from    *)
(* UnicodeWidthStr::width (display columns) and is handed to               *)
(* String::insert / String::remove / String::drain (byte offsets).         *)
(* A Rust panic ends the process; it is recorded in `panicked`, after      *)
(* which no operation runs.                                                *)
(***************************************************************************)
EXTENDS Integers, Sequences, FiniteSets, TLC

VARIABLES
    lines,          \* Input.lines: Vec<Line>, each line a sequence of characters
    current_row,    \* Input.current_row: u16
    cursor_column,  \* Input.cursor_column: u16
    panicked,       \* TRUE once an operation has panicked
    last_op,        \* the operation that produced this state, and its argument
    prev,           \* the Input value that operation was applied to
    recording,      \* whether prev is kept (a history switch, never changed)
    selected,       \* app.state.tabs.selected: SelectedTab
    should_quit,    \* app.state.should_quit
    editor_editable,\* app.state.explore_tab.editor_editable()
    query,          \* the explore tab's active query: Option<Query>
    tasks,          \* the query tasks spawned with tokio::spawn and running
    app_event_rx,   \* the AppEvents sent on app_event_tx and not yet handled
    flightsql,      \* whether the build has the feature "flightsql"
    sql_terminated, \* Editor.sql_terminated
    history,        \* Editor.history: Vec<QueryResultsMeta>
    flightsql_client, \* app.execution.flightsql_client: Arc<Mutex<Option<..>>>
    conn_tasks,     \* the connection tasks spawned with tokio::spawn
    last_event,     \* the event or task step that produced this state
    app_prev,       \* the App value that event or step was applied to
    cli_args,       \* the values of the -f arguments of the command line
    cli_pc,         \* where the process is: "parse", "batch", "tui", "exit"
    cli_file,       \* DftCli.file: the paths accepted so far
    cli_executed,   \* the statements executed so far, in order
    cli_stdout,     \* the results printed
    cli_stderr,     \* the errors printed
    cli_exit        \* the exit code of the process: Option

input_vars ==
    <<lines, current_row, cursor_column, panicked, last_op, prev, recording>>

app_vars ==
    <<selected, should_quit, editor_editable, query, tasks, app_event_rx,
      flightsql, sql_terminated, history, flightsql_client, conn_tasks,
      last_event, app_prev>>

cli_vars ==
    <<cli_args, cli_pc, cli_file, cli_executed, cli_stdout, cli_stderr,
      cli_exit>>

vars ==
    <<lines, current_row, cursor_column, panicked, last_op, prev, recording,
      selected, should_quit, editor_editable, query, tasks, app_event_rx,
      flightsql, sql_terminated, history, flightsql_client, conn_tasks,
      last_event, app_prev,
      cli_args, cli_pc, cli_file, cli_executed, cli_stdout, cli_stderr,
      cli_exit>>

----------------------------------------------------------------------------
(* Bounds of the model *)

MaxSize == 6        \* lines plus characters an editing operation may grow
                    \* the buffer to
MaxColumn == 5      \* the column next_char may move the cursor to
MaxFileLen == 3     \* characters of a file given to load_file
MaxDocLines == 20   \* lines of the long documents used for the viewport
MaxSqlSize == 2     \* lines plus characters of the buffer the handlers edit
MaxTasks == 2       \* queries in flight (running, or sent and not yet handled)
                    \* when only the submitting keys are pressed
MaxPending == 1     \* queries in flight when every key is pressed
MaxArgs == 2        \* -f arguments on the command line
MaxConnTasks == 3   \* connection tasks spawned
MaxEditSize == 5    \* lines plus characters of the buffer edit_mode_handler edits

(* const MAX_EDITOR_LINES: u16 = 17; *)
MAX_EDITOR_LINES == 17

----------------------------------------------------------------------------
(* Characters *)

NL  == "NL"     \* '\n', the line terminator
TAB == "TAB"    \* '\t'
CR  == "CR"     \* '\r'
SP  == "SP"     \* ' '
\* "a" stands for any one-byte, one-column character; "W" for a wide
\* character such as U+4E2D: three bytes of UTF-8, two display columns.
KeyChars == {"a", "W"}

\* char::len_utf8
ByteLen(c) == IF c = "W" THEN 3 ELSE 1

\* UnicodeWidthChar::width as summed by UnicodeWidthStr::width
\* (unicode-width 0.1: a control character adds no column)
CharWidth(c) ==
    CASE c = "W" -> 2
      [] c \in {NL, TAB, CR} -> 0
      [] OTHER -> 1

RECURSIVE StrWidth(_)
\* UnicodeWidthStr::width
StrWidth(s) == IF s = <<>> THEN 0 ELSE CharWidth(Head(s)) + StrWidth(Tail(s))

RECURSIVE StrLen(_)
\* String::len: the length in bytes
StrLen(s) == IF s = <<>> THEN 0 ELSE ByteLen(Head(s)) + StrLen(Tail(s))

\* byte offset of the end of the first k characters
ByteOffset(s, k) == StrLen(SubSeq(s, 1, k))

\* str::is_char_boundary
IsCharBoundary(s, idx) == \E k \in 0..Len(s) : ByteOffset(s, k) = idx

\* number of characters before byte offset idx (a char boundary)
CharsBefore(s, idx) == CHOOSE k \in 0..Len(s) : ByteOffset(s, k) = idx

\* String::insert(idx, c) panics unless idx is a char boundary
StringInsertPanics(s, idx) == ~IsCharBoundary(s, idx)

StringInsert(s, idx, c) ==
    LET k == CharsBefore(s, idx)
    IN  SubSeq(s, 1, k) \o <<c>> \o SubSeq(s, k + 1, Len(s))

\* String::remove(idx) panics unless a character starts at idx
StringRemovePanics(s, idx) == idx >= StrLen(s) \/ ~IsCharBoundary(s, idx)

StringRemove(s, idx) ==
    LET k == CharsBefore(s, idx)
    IN  SubSeq(s, 1, k) \o SubSeq(s, k + 2, Len(s))

\* String::drain(idx..) panics unless idx is a char boundary
StringDrainPanics(s, idx) == ~IsCharBoundary(s, idx)

\* the characters String::drain(idx..) yields
StringDrain(s, idx) == SubSeq(s, CharsBefore(s, idx) + 1, Len(s))

\* what String::drain(idx..) leaves in the string
StringKeep(s, idx) == SubSeq(s, 1, CharsBefore(s, idx))

\* String::pop
StringPop(s) == IF s = <<>> THEN s ELSE SubSeq(s, 1, Len(s) - 1)

\* Vec::insert(i, x), i counted from 0
VecInsert(v, i, x) == SubSeq(v, 1, i) \o <<x>> \o SubSeq(v, i + 1, Len(v))

\* the literal "    "
FourSpaces == <<SP, SP, SP, SP>>

RECURSIVE Concat(_)
\* [&str]::join("")
Concat(ls) == IF ls = <<>> THEN <<>> ELSE Head(ls) \o Concat(Tail(ls))

----------------------------------------------------------------------------
(* Input: the operations, as functions from an Input value to an Input value *)

\* the Input value of the current state
Input ==
    [lines |-> lines, current_row |-> current_row,
     cursor_column |-> cursor_column, panicked |-> panicked]

\* a panic: the operation stops where it is
Panic(in) == [in EXCEPT !.panicked = TRUE]

\* self.lines[self.current_row as usize] is in range
RowInRange(in) == in.current_row < Len(in.lines)

\* self.lines[self.current_row as usize].text.get_ref()
CurLine(in) == in.lines[in.current_row + 1]

\* ....text.get_ref().width() as u16
CurWidth(in) == StrWidth(CurLine(in))

combine_lines(in) == Concat(in.lines)

cursor_is_at_line_end(in) == in.cursor_column = StrLen(CurLine(in))

cursor_is_at_line_beginning(in) == in.cursor_column = 0

cursor_is_in_line_middle(in) ==
    in.cursor_column > 0 /\ in.cursor_column < StrLen(CurLine(in))

on_last_line(in) == in.current_row = Len(in.lines) - 1

\* the tail every branch of new_line shares: place `line` after the current
\* row, move to it, column 0
PlaceAfter(in, line) ==
    [in EXCEPT
        !.lines = IF on_last_line(in) THEN Append(in.lines, line)
                  ELSE VecInsert(in.lines, in.current_row + 1, line),
        !.current_row = in.current_row + 1,
        !.cursor_column = 0]

new_line(in) ==
    IF ~RowInRange(in) THEN Panic(in)
    ELSE IF cursor_is_at_line_beginning(in) THEN
        LET line == CurLine(in)  \* Line::default() when empty, else a clone
        IN  PlaceAfter([in EXCEPT !.lines[in.current_row + 1] = <<NL>>], line)
    ELSE IF cursor_is_at_line_end(in) THEN
        PlaceAfter([in EXCEPT !.lines[in.current_row + 1] = Append(@, NL)], <<>>)
    ELSE IF cursor_is_in_line_middle(in) THEN
        IF StringDrainPanics(CurLine(in), in.cursor_column) THEN Panic(in)
        ELSE
            LET rest == StringDrain(CurLine(in), in.cursor_column)
                kept == StringKeep(CurLine(in), in.cursor_column)
            IN  PlaceAfter(
                    [in EXCEPT !.lines[in.current_row + 1] = Append(kept, NL)],
                    rest)
    ELSE in  \* debug!("Unhandled")

append_char(in, c) ==
    LET in1 == IF in.lines = <<>> THEN [in EXCEPT !.lines = << <<>> >>] ELSE in
    IN  CASE c = NL -> new_line(in1)
          [] c = TAB ->
                IF ~RowInRange(in1) THEN Panic(in1)
                ELSE [in1 EXCEPT
                        !.lines[in1.current_row + 1] = @ \o FourSpaces,
                        !.cursor_column = @ + 4]
          [] OTHER ->
                IF ~RowInRange(in1) THEN Panic(in1)
                ELSE IF StringInsertPanics(CurLine(in1), in1.cursor_column)
                THEN Panic(in1)
                ELSE [in1 EXCEPT
                        !.lines[in1.current_row + 1] =
                            StringInsert(@, in1.cursor_column, c),
                        !.cursor_column = @ + 1]

pop(in) ==
    IF ~RowInRange(in) THEN Panic(in)
    ELSE [in EXCEPT !.lines[in.current_row + 1] = StringPop(@)]

up_row(in) ==
    IF in.current_row > 0 THEN
        IF ~RowInRange(in) THEN Panic(in)
        ELSE
            LET new_row_width ==
                    StrWidth(in.lines[in.current_row])
            IN  IF CurLine(in) = <<>> THEN
                    [in EXCEPT !.current_row = @ - 1,
                               !.cursor_column = new_row_width]
                ELSE
                    [in EXCEPT !.current_row = @ - 1,
                               !.cursor_column =
                                   IF @ < new_row_width THEN @ ELSE new_row_width]
    ELSE in

down_row(in) ==
    IF in.lines = <<>> THEN in
    ELSE IF in.current_row + 1 < Len(in.lines) THEN
        LET new_row_width ==
                StrWidth(in.lines[in.current_row + 2])
        IN  [in EXCEPT !.current_row = @ + 1,
                       !.cursor_column =
                           IF @ < new_row_width THEN @ ELSE new_row_width]
    ELSE in

\* next_char without the test for the last row
next_char_past_last_row(in) ==
    IF in.lines = <<>> THEN in
    ELSE IF ~RowInRange(in) THEN Panic(in)
    ELSE IF in.cursor_column = CurWidth(in) THEN in
    ELSE IF in.cursor_column + 1 = CurWidth(in) THEN
        [in EXCEPT !.current_row = @ + 1, !.cursor_column = 0]
    ELSE [in EXCEPT !.cursor_column = @ + 1]

next_char(in) ==
    IF in.lines = <<>> THEN in
    ELSE IF ~RowInRange(in) THEN Panic(in)
    ELSE IF in.cursor_column = CurWidth(in) THEN in
    ELSE IF in.cursor_column + 1 = CurWidth(in)
            /\ in.current_row # Len(in.lines) - 1 THEN
        [in EXCEPT !.current_row = @ + 1, !.cursor_column = 0]
    ELSE [in EXCEPT !.cursor_column = @ + 1]

previous_char(in) ==
    IF in.cursor_column = 0 /\ in.current_row > 0 THEN
        IF in.current_row - 1 >= Len(in.lines) THEN
            Panic([in EXCEPT !.current_row = @ - 1])
        ELSE [in EXCEPT !.current_row = @ - 1,
                        !.cursor_column =
                            StrWidth(in.lines[in.current_row])]
    ELSE IF in.cursor_column > 0 THEN [in EXCEPT !.cursor_column = @ - 1]
    ELSE in

backspace(in) ==
    IF ~RowInRange(in) THEN Panic(in)
    ELSE IF CurLine(in) = <<>> THEN
        LET up == up_row(in)
        IN  IF up.panicked THEN up ELSE pop(up)  \* "Pop newline character"
    ELSE
        \* cursor_column - 1 on a u16: a debug build panics at 0, a release
        \* build wraps to 65535 and String::remove panics on it
        IF in.cursor_column = 0 THEN Panic(in)
        ELSE IF StringRemovePanics(CurLine(in), in.cursor_column - 1)
        THEN Panic(in)
        ELSE [in EXCEPT
                !.lines[in.current_row + 1] =
                    StringRemove(@, in.cursor_column - 1),
                !.cursor_column = @ - 1]

\* clear that leaves cursor_column as it is
clear_keeps_column(in) == [in EXCEPT !.lines = <<>>, !.current_row = 0]

clear(in) ==
    [in EXCEPT !.lines = <<>>, !.current_row = 0, !.cursor_column = 0]

tab(in) == append_char(in, TAB)

\* combine_visible_lines: index of the first line of the window
visible_start(in) ==
    IF in.current_row < MAX_EDITOR_LINES THEN 0
    ELSE in.current_row - MAX_EDITOR_LINES

\* the end of the window without the "+ 1"
visible_end_short(in) == visible_start(in) + MAX_EDITOR_LINES

\* combine_visible_lines: index after the last line of the window
visible_end(in) == visible_start(in) + MAX_EDITOR_LINES + 1

\* self.lines[start..end] panics when end is beyond the last line
visible_panics(in) ==
    visible_start(in) # 0 /\ visible_end(in) > Len(in.lines)

\* combine_visible_lines: the lines collected into `text`
visible_lines(in) ==
    IF visible_start(in) = 0 THEN in.lines
    ELSE SubSeq(in.lines, visible_start(in) + 1, visible_end(in))

combine_visible_lines(in) == Concat(visible_lines(in))

----------------------------------------------------------------------------
(* Editor *)

get_cursor_row(in) ==
    IF in.current_row < MAX_EDITOR_LINES THEN in.current_row
    ELSE MAX_EDITOR_LINES

get_cursor_column(in) == in.cursor_column

\* index of the first '\n' of s, 0 when there is none
FirstNL(s) ==
    IF \E i \in 1..Len(s) : s[i] = NL
    THEN CHOOSE i \in 1..Len(s) : s[i] = NL /\ \A j \in 1..(i - 1) : s[j] # NL
    ELSE 0

RECURSIVE BufLines(_)
\* BufRead::lines: the text up to each '\n', without it and without a '\r'
\* before it; text after the last '\n' is a line too
BufLines(s) ==
    IF s = <<>> THEN <<>>
    ELSE
        LET k == FirstNL(s)
        IN  IF k = 0 THEN <<s>>
            ELSE
                LET raw == SubSeq(s, 1, k - 1)
                    line == IF raw # <<>> /\ raw[Len(raw)] = CR
                            THEN SubSeq(raw, 1, Len(raw) - 1) ELSE raw
                IN  <<line>> \o BufLines(SubSeq(s, k + 1, Len(s)))

RECURSIVE ReplaceTabs(_)
\* str::replace('\t', "    ")
ReplaceTabs(s) ==
    IF s = <<>> THEN <<>>
    ELSE (IF Head(s) = TAB THEN FourSpaces ELSE <<Head(s)>>)
            \o ReplaceTabs(Tail(s))

\* the Line without the terminator pushed
LoadedLineNoTerminator(line) == ReplaceTabs(line)

\* the Line load_file makes of one line read from the file
LoadedLine(line) == ReplaceTabs(Append(line, NL))

\* load_file with every line read: the lines are replaced, the cursor is
\* not touched
load_file(in, file) ==
    LET read == BufLines(file)
    IN  [in EXCEPT !.lines = [i \in 1..Len(read) |-> LoadedLine(read[i])]]

\* load_file installing the lines read before the one that failed, here
\* none
load_file_err_installs_read(in) == [in EXCEPT !.lines = <<>>]

\* load_file when reading a line fails: `line?` returns before self.input
\* is assigned
load_file_err(in) == in

----------------------------------------------------------------------------
(* The handlers of src/src/app/handlers: functions from an App value and an *)
(* event to an App value.  An Option is a sequence of length 0 or 1.        *)

\* the App value of the current state
App ==
    [input |-> Input, selected |-> selected, should_quit |-> should_quit,
     editor_editable |-> editor_editable, query |-> query, tasks |-> tasks,
     app_event_rx |-> app_event_rx, flightsql |-> flightsql,
     sql_terminated |-> sql_terminated, history |-> history,
     flightsql_client |-> flightsql_client, conn_tasks |-> conn_tasks]

\* enum SelectedTab
Tabs == {"SQL", "Logs", "Context", "FlightSQL"}

\* KeyCode::Char(c) for these c; CtrlEnter is (KeyCode::Enter,
\* KeyModifiers::CONTROL), every other key has no modifier
CharKeys == {"q", "s", "l", "x", "f", "c", "e"}

Key(code) == [code |-> code, modifiers |-> "NONE"]

CtrlEnter == [code |-> "Enter", modifiers |-> "CONTROL"]

Keys ==
    {Key(c) : c \in CharKeys \cup {"Enter", "Esc", "Up", "Down", "Left",
                                   "Right", "Tab", "Backspace", "PageUp"}}
        \cup {CtrlEnter}

\* the text "Enter a query here." the explore tab shows in an unused editor,
\* as one token
Placeholder == <<"P">>

\* enum AppEvent
KeyEvent(key) == [type |-> "Key", key |-> key, query |-> <<>>]

QueryResult(q) == [type |-> "QueryResult", key |-> Key(""), query |-> <<q>>]

OtherEvent(type) == [type |-> type, key |-> Key(""), query |-> <<>>]

\* Query::new(sql, results, num_rows, error, elapsed_time)
Query(sql, results, num_rows, error, elapsed) ==
    [sql |-> sql, results |-> results, num_rows |-> num_rows,
     error |-> error, elapsed_time |-> elapsed]

\* app.state.explore_tab.editor().lines().join("")
editor_text(app) == combine_lines(app.input)

\* the editor's buffer becomes `in`
WithInput(app, in) == [app EXCEPT !.input = in]

\* ExploreTabState::clear_editor
clear_editor(app) == WithInput(app, clear(app.input))

\* ExploreTabState::clear_placeholder
clear_placeholder(app) == WithInput(app, clear(app.input))

\* ExploreTabState::edit
edit(app) == [app EXCEPT !.editor_editable = TRUE]

\* ExploreTabState::exit_edit
exit_edit(app) == [app EXCEPT !.editor_editable = FALSE]

\* ExploreTabState::set_query
set_query(app, q) == [app EXCEPT !.query = <<q>>]

\* tokio::spawn of a query task
Spawn(app, sql, from) ==
    [app EXCEPT !.tasks = Append(@, [sql |-> sql, from |-> from])]

\* the key map of the editor with a backspace that takes the flag back
edit_mode_handler_unterminates(app, key) ==
    CASE key.code = "Enter" -> WithInput(app, append_char(app.input, NL))
      [] key.code = ";" ->
            [WithInput(app, append_char(app.input, ";"))
                EXCEPT !.sql_terminated = TRUE]
      [] key.code \in CharKeys ->
            WithInput(app, append_char(app.input, key.code))
      [] key.code = "Left" -> WithInput(app, previous_char(app.input))
      [] key.code = "Right" -> WithInput(app, next_char(app.input))
      [] key.code = "Up" -> WithInput(app, up_row(app.input))
      [] key.code = "Down" -> WithInput(app, down_row(app.input))
      [] key.code = "Tab" -> WithInput(app, tab(app.input))
      [] key.code = "Backspace" ->
            [WithInput(app, backspace(app.input))
                EXCEPT !.sql_terminated = FALSE]
      [] key.code = "Esc" -> [app EXCEPT !.editor_editable = FALSE]
      [] OTHER -> app

\* edit_mode_handler: the key map of the editor
edit_mode_handler(app, key) ==
    CASE key.code = "Enter" -> WithInput(app, append_char(app.input, NL))
      [] key.code = ";" ->
            [WithInput(app, append_char(app.input, ";"))
                EXCEPT !.sql_terminated = TRUE]
      [] key.code \in CharKeys ->
            WithInput(app, append_char(app.input, key.code))
      [] key.code = "Left" -> WithInput(app, previous_char(app.input))
      [] key.code = "Right" -> WithInput(app, next_char(app.input))
      [] key.code = "Up" -> WithInput(app, up_row(app.input))
      [] key.code = "Down" -> WithInput(app, down_row(app.input))
      [] key.code = "Tab" -> WithInput(app, tab(app.input))
      [] key.code = "Backspace" -> WithInput(app, backspace(app.input))
      [] key.code = "Esc" -> [app EXCEPT !.editor_editable = FALSE]
      [] OTHER -> app

\* ExploreTabState::update_editor_content: the key goes to the text buffer
update_editor_content(app, key) == edit_mode_handler(app, key)

tab_navigation_handler(app, code) ==
    CASE code = "s" -> [app EXCEPT !.selected = "SQL"]
      [] code = "l" -> [app EXCEPT !.selected = "Logs"]
      [] code = "x" -> [app EXCEPT !.selected = "Context"]
      [] code = "f" /\ app.flightsql -> [app EXCEPT !.selected = "FlightSQL"]
      [] OTHER -> app

\* Up and Down move the selection of the results table (a ratatui
\* TableState), which is not part of this state
explore_tab_normal_mode_handler(app, key) ==
    CASE key.code = "c" -> clear_editor(app)
      [] key.code = "e" ->
            edit(IF editor_text(app) = Placeholder
                 THEN clear_placeholder(app) ELSE app)
      [] key.code \in {"Down", "Up"} -> app
      [] key.code = "Enter" -> Spawn(app, editor_text(app), "normal")
      [] OTHER -> app

\* the handler leaving the edit mode when it submits
explore_tab_editable_handler_exits_on_submit(app, key) ==
    CASE key.code = "Esc" -> exit_edit(app)
      [] key = CtrlEnter -> exit_edit(Spawn(app, editor_text(app), "editable"))
      [] OTHER -> update_editor_content(app, key)

explore_tab_editable_handler(app, key) ==
    CASE key.code = "Esc" -> exit_edit(app)
      [] key = CtrlEnter -> Spawn(app, editor_text(app), "editable")
      [] OTHER -> update_editor_content(app, key)

\* the query a was submitted before the query b: the editor holds the
\* placeholder until the first 'e' clears it, and never again after that
SubmittedBefore(a, b) == a.sql = Placeholder /\ b.sql = <<>>

\* the handler dropping the result of a query older than the active one
explore_tab_app_event_handler_drops_stale(app, event) ==
    CASE event.type = "Key" ->
            IF app.editor_editable
            THEN explore_tab_editable_handler(app, event.key)
            ELSE explore_tab_normal_mode_handler(app, event.key)
      [] event.type = "QueryResult" ->
            IF app.query # <<>> /\ SubmittedBefore(event.query[1], app.query[1])
            THEN app
            ELSE set_query(app, event.query[1])
      [] OTHER -> app

\* the handler keeping the active query it has when a result arrives
explore_tab_app_event_handler_keeps_first(app, event) ==
    CASE event.type = "Key" ->
            IF app.editor_editable
            THEN explore_tab_editable_handler(app, event.key)
            ELSE explore_tab_normal_mode_handler(app, event.key)
      [] event.type = "QueryResult" ->
            IF app.query = <<>> THEN set_query(app, event.query[1]) ELSE app
      [] OTHER -> app

explore_tab_app_event_handler(app, event) ==
    CASE event.type = "Key" ->
            IF app.editor_editable
            THEN explore_tab_editable_handler(app, event.key)
            ELSE explore_tab_normal_mode_handler(app, event.key)
      [] event.type = "QueryResult" -> set_query(app, event.query[1])
      [] OTHER -> app

\* the keys move the log widget (tui_logger), which is not part of this state
logs_tab_key_event_handler(app, key) == app

context_tab_key_event_handler(app, key) == app

logs_tab_app_event_handler(app, event) ==
    CASE event.type = "Key" -> logs_tab_key_event_handler(app, event.key)
      [] event.type = "QueryResult" -> set_query(app, event.query[1])
      [] OTHER -> app

context_tab_app_event_handler(app, event) ==
    CASE event.type = "Key" -> context_tab_key_event_handler(app, event.key)
      [] event.type = "QueryResult" -> set_query(app, event.query[1])
      [] OTHER -> app

\* tokio::spawn of a connection task: it starts at the await of connect()
SpawnConnect(app) ==
    [app EXCEPT !.conn_tasks = Append(@, "connect")]

\* the tasks spawned for ExecuteDDL send no event and touch nothing of App
app_event_handler(app, event) ==
    CASE event.type = "Key" ->
            IF event.key.code = "q" THEN [app EXCEPT !.should_quit = TRUE]
            ELSE IF event.key.code \in {"s", "l", "x", "f"}
            THEN tab_navigation_handler(app, event.key.code)
            ELSE app
      [] event.type = "ExecuteDDL" -> app
      [] event.type = "EstablishFlightSQLConnection" /\ app.flightsql ->
            SpawnConnect(app)
      [] OTHER ->
            CASE app.selected = "SQL" -> explore_tab_app_event_handler(app, event)
              [] app.selected = "Logs" -> logs_tab_app_event_handler(app, event)
              [] app.selected = "Context" ->
                    context_tab_app_event_handler(app, event)
              [] app.selected = "FlightSQL" -> app

\* how ctx.sql(&sql).await and df.collect().await of a task may end
Outcomes == {"ok", "sql_err", "collect_err"}

\* what a query task sends at its end: the task spawned in normal mode sends
\* its Query whatever the outcome, the one spawned in edit mode sends one
\* only when both calls succeeded
TaskSends(task, outcome) ==
    IF task.from = "normal" THEN
        IF outcome = "ok"
        THEN <<Query(task.sql, "Some", "Some", "None", "measured")>>
        ELSE <<Query(task.sql, "None", "None", "Some", "measured")>>
    ELSE
        IF outcome = "ok"
        THEN <<Query(task.sql, "Some", "None", "None", "measured")>>
        ELSE <<>>

\* the sequence s without its i-th element
Without(s, i) == SubSeq(s, 1, i - 1) \o SubSeq(s, i + 1, Len(s))

\* task i runs to its end: its two awaits touch the engine only, then it
\* sends on its clone of app_event_tx
run_task(app, i, outcome) ==
    [app EXCEPT !.tasks = Without(@, i),
                !.app_event_rx = @ \o TaskSends(app.tasks[i], outcome)]

\* how Channel::from_static(url).connect().await of a task may end
ConnectOutcomes == {"Ok", "Err"}

\* connection task i takes the mutex before it connects
connected_holding_lock(app, i, outcome) ==
    IF app.flightsql_client.holder # <<>> THEN app
    ELSE [app EXCEPT !.conn_tasks[i] = IF outcome = "Ok" THEN "locked" ELSE "done",
                     !.flightsql_client.holder =
                        IF outcome = "Ok" THEN <<i>> ELSE <<>>]

\* the await of connection task i ends: with a channel the task goes on to
\* client.lock(), with an error it logs the error and ends
connected(app, i, outcome) ==
    [app EXCEPT !.conn_tasks[i] = IF outcome = "Ok" THEN "lock" ELSE "done"]

\* client.lock().unwrap() of connection task i returns the guard
lock(app, i) ==
    [app EXCEPT !.conn_tasks[i] = "locked",
                !.flightsql_client.holder = <<i>>]

\* *locked_client = Some(flightsql_client), then the guard is dropped at the
\* end of the match arm and the task ends
install(app, i) ==
    [app EXCEPT !.conn_tasks[i] = "done",
                !.flightsql_client = [holder |-> <<>>, client |-> <<i>>]]

----------------------------------------------------------------------------
(* The command line: src/src/cli/mod.rs, and the batch run that              *)
(* src/tests/cli.rs tests                                                    *)

\* the paths used on the command line
Paths == {"one.sql", "two.sql", "bad.sql", "dir", "gone.sql"}

\* what is at each path: a file with its statements ("ok": the engine runs
\* it, "err": the engine rejects it), a directory, or nothing
Disk(path) ==
    CASE path = "one.sql" -> [kind |-> "file", statements |-> <<"ok">>]
      [] path = "two.sql" -> [kind |-> "file", statements |-> <<"ok", "ok">>]
      [] path = "bad.sql" ->
            [kind |-> "file", statements |-> <<"ok", "err", "ok">>]
      [] path = "dir" -> [kind |-> "dir", statements |-> <<>>]
      [] OTHER -> [kind |-> "missing", statements |-> <<>>]

\* Path::exists
exists(path) == Disk(path).kind # "missing"

\* Path::is_file
is_file(path) == Disk(path).kind = "file"

Ok(path) == [ok |-> TRUE, path |-> path, message |-> ""]

Err(message, path) == [ok |-> FALSE, path |-> path, message |-> message]

\* parse_valid_file that takes whatever exists
parse_valid_file_any_kind(file) ==
    IF ~exists(file) THEN Err("File does not exist", file)
    ELSE Ok(file)

parse_valid_file(file) ==
    IF ~exists(file) THEN Err("File does not exist", file)
    ELSE IF ~is_file(file) THEN Err("Exists but is not a file", file)
    ELSE Ok(file)

\* the process of the current state
Cli ==
    [args |-> cli_args, pc |-> cli_pc, file |-> cli_file,
     executed |-> cli_executed, stdout |-> cli_stdout,
     stderr |-> cli_stderr, exit |-> cli_exit]

\* DftCli::parse hands the next value of -f to its value_parser; an Err ends
\* the process with the message on stderr and the exit code 2 of a usage
\* error
parse_file(cli) ==
    LET r == parse_valid_file(cli.args[Len(cli.file) + 1])
    IN  IF r.ok THEN [cli EXCEPT !.file = Append(@, r.path)]
        ELSE [cli EXCEPT
                !.stderr = Append(@, [message |-> r.message, path |-> r.path]),
                !.exit = <<2>>,
                !.pc = "exit"]

\* DftCli::parse returns: with files the statements of the files are run,
\* without any the terminal interface starts
parsed(cli) ==
    [cli EXCEPT !.pc = IF cli.file = <<>> THEN "tui" ELSE "batch"]

\* the statements of the k-th accepted file, in the order of the document
Statements(files, k) ==
    LET text == Disk(files[k]).statements
    IN  [n \in 1..Len(text) |-> [arg |-> k, n |-> n, ok |-> text[n] = "ok"]]

RECURSIVE ScriptFrom(_, _)
ScriptFrom(files, k) ==
    IF k > Len(files) THEN <<>>
    ELSE Statements(files, k) \o ScriptFrom(files, k + 1)

\* the statements of all accepted files, in the order of the arguments
Script(files) == ScriptFrom(files, 1)

\* the batch run going on after a statement that failed
execute_statement_goes_on(cli) ==
    LET st == Script(cli.file)[Len(cli.executed) + 1]
    IN  IF st.ok
        THEN [cli EXCEPT !.executed = Append(@, st),
                         !.stdout = Append(@, st)]
        ELSE [cli EXCEPT !.executed = Append(@, st),
                         !.stderr = Append(@, [message |-> "sql", path |-> ""])]

\* the batch run executes the next statement: its result is printed, or its
\* error is printed and the process ends with exit code 101
execute_statement(cli) ==
    LET st == Script(cli.file)[Len(cli.executed) + 1]
    IN  IF st.ok
        THEN [cli EXCEPT !.executed = Append(@, st),
                         !.stdout = Append(@, st)]
        ELSE [cli EXCEPT !.executed = Append(@, st),
                         !.stderr = Append(@, [message |-> "sql", path |-> ""]),
                         !.exit = <<101>>,
                         !.pc = "exit"]

\* the batch run has executed every statement
finish(cli) == [cli EXCEPT !.exit = <<0>>, !.pc = "exit"]

----------------------------------------------------------------------------
(* State machine *)

NoOp == [op |-> "new", c |-> "", file |-> <<>>]

Op(name) == [op |-> name, c |-> "", file |-> <<>>]

\* a file of n lines "a\n"
LongFile(n) == [i \in 1..(2 * n) |-> IF i % 2 = 1 THEN "a" ELSE NL]

\* #[derive(Default)] Input, as Editor::default() builds it
Fresh ==
    [lines |-> <<>>, current_row |-> 0, cursor_column |-> 0, panicked |-> FALSE]

\* no event yet
NoEvent ==
    [via |-> "new", event |-> OtherEvent("None"), task |-> <<>>,
     outcome |-> "None"]

\* Editor::default(): no statement terminated, no history
EditorNew ==
    /\ sql_terminated = FALSE
    /\ history = <<>>

\* the shared handle of the FlightSQL client as constructed: no client, the
\* mutex free, no connection task
ExecutionNew ==
    /\ flightsql_client = [holder |-> <<>>, client |-> <<>>]
    /\ conn_tasks = <<>>

\* the state of the application around the editor, as constructed: the SQL
\* tab selected, the editor not editable, no query, no task, no event
AppNew ==
    /\ selected = "SQL"
    /\ should_quit = FALSE
    /\ editor_editable = FALSE
    /\ query = <<>>
    /\ tasks = <<>>
    /\ app_event_rx = <<>>
    /\ flightsql = FALSE
    /\ EditorNew
    /\ ExecutionNew
    /\ last_event = NoEvent
    /\ app_prev = App

\* the process started with the -f values `args`
CliNew(args) ==
    /\ cli_args = args
    /\ cli_pc = "parse"
    /\ cli_file = <<>>
    /\ cli_executed = <<>>
    /\ cli_stdout = <<>>
    /\ cli_stderr = <<>>
    /\ cli_exit = <<>>

\* the editor as constructed
New ==
    /\ lines = Fresh.lines
    /\ current_row = Fresh.current_row
    /\ cursor_column = Fresh.cursor_column
    /\ panicked = Fresh.panicked
    /\ last_op = NoOp
    /\ prev = Fresh
    /\ AppNew

Init == New /\ recording = TRUE /\ CliNew(<<>>)

\* the same editor, without the history of prev
InitLoad == New /\ recording = FALSE /\ CliNew(<<>>)

\* the editor after a long document was loaded into it at start
InitView ==
    /\ \E n \in 0..MaxDocLines : lines = load_file(Fresh, LongFile(n)).lines
    /\ current_row = Fresh.current_row
    /\ cursor_column = Fresh.cursor_column
    /\ panicked = Fresh.panicked
    /\ last_op = Op("load_file")
    /\ prev = Fresh
    /\ recording = TRUE
    /\ AppNew
    /\ CliNew(<<>>)

RECURSIVE TotalChars(_)
TotalChars(ls) == IF ls = <<>> THEN 0 ELSE Len(Head(ls)) + TotalChars(Tail(ls))

\* the buffer is within the bounds of the model
Fits(in) ==
    /\ Len(in.lines) + TotalChars(in.lines) <= MaxSize
    /\ in.cursor_column <= MaxColumn

\* the state becomes the Input value r, produced by operation o
Becomes(r, o) ==
    /\ lines' = r.lines
    /\ current_row' = r.current_row
    /\ cursor_column' = r.cursor_column
    /\ panicked' = r.panicked
    /\ last_op' = o
    /\ prev' = IF recording THEN Input ELSE prev
    /\ recording' = recording
    /\ UNCHANGED app_vars
    /\ UNCHANGED cli_vars

AppendChar ==
    \E c \in KeyChars \cup {NL, TAB} :
        LET r == append_char(Input, c)
        IN  /\ ~panicked
            /\ Fits(r)
            /\ Becomes(r, [Op("append_char") EXCEPT !.c = c])

Tab ==
    LET r == tab(Input)
    IN  ~panicked /\ Fits(r) /\ Becomes(r, Op("tab"))

Pop ==
    LET r == pop(Input)
    IN  ~panicked /\ Becomes(r, Op("pop"))

UpRow ==
    LET r == up_row(Input)
    IN  ~panicked /\ Becomes(r, Op("up_row"))

DownRow ==
    LET r == down_row(Input)
    IN  ~panicked /\ Becomes(r, Op("down_row"))

NextChar ==
    LET r == next_char(Input)
    IN  ~panicked /\ Fits(r) /\ Becomes(r, Op("next_char"))

PreviousChar ==
    LET r == previous_char(Input)
    IN  ~panicked /\ Becomes(r, Op("previous_char"))

Backspace ==
    LET r == backspace(Input)
    IN  ~panicked /\ Becomes(r, Op("backspace"))

Clear ==
    LET r == clear(Input)
    IN  ~panicked /\ Becomes(r, Op("clear"))

\* the files load_file is given: up to MaxFileLen characters
FileChars == {"a", TAB, NL, CR}

Files == UNION {[1..n -> FileChars] : n \in 0..MaxFileLen}

LoadFile ==
    \E file \in Files :
        LET r == load_file(Input, file)
        IN  ~panicked /\ Becomes(r, [Op("load_file") EXCEPT !.file = file])

\* a few files, for loading in the middle of editing
SampleFiles ==
    {<<>>, <<"a">>, <<"a", NL, "a", NL>>, <<TAB, "a", CR, NL>>}

LoadSample ==
    \E file \in SampleFiles :
        LET r == load_file(Input, file)
        IN  ~panicked /\ Becomes(r, [Op("load_file") EXCEPT !.file = file])

LoadFileErr ==
    LET r == load_file_err(Input)
    IN  ~panicked /\ Becomes(r, Op("load_file_err"))

\* the operations the key handler of the editor reaches, and clear
Next ==
    \/ AppendChar
    \/ Tab
    \/ UpRow
    \/ DownRow
    \/ NextChar
    \/ PreviousChar
    \/ Backspace
    \/ Clear

Spec == Init /\ [][Next]_vars

\* every public operation of Input
NextInput == Next \/ Pop

SpecInput == Init /\ [][NextInput]_vars

\* files loaded into the editor and the cursor moved over them
NextFile ==
    \/ LoadFile
    \/ LoadFileErr
    \/ DownRow
    \/ NextChar

SpecFile == InitLoad /\ [][NextFile]_vars

\* editing, with files loaded in the middle of it
NextLoad == Next \/ LoadSample \/ LoadFileErr

SpecLoad == InitLoad /\ [][NextLoad]_vars

\* typing and moving up, with loads that succeed and loads that fail
NextLoadErr == AppendChar \/ UpRow \/ LoadSample \/ LoadFileErr

SpecLoadErr == Init /\ [][NextLoadErr]_vars

\* long documents and the cursor moving over them
NextView == UpRow \/ DownRow \/ NextChar \/ PreviousChar

SpecView == InitView /\ [][NextView]_vars

----------------------------------------------------------------------------
(* State machine of the handlers *)

\* the explore tab as constructed: its editor shows the placeholder
InitTab ==
    /\ lines = <<Placeholder>>
    /\ current_row = Fresh.current_row
    /\ cursor_column = Fresh.cursor_column
    /\ panicked = Fresh.panicked
    /\ last_op = NoOp
    /\ prev = Fresh
    /\ recording = FALSE
    /\ AppNew
    /\ CliNew(<<>>)

\* the application when an event reaches app_event_handler: built with or
\* without the feature "flightsql", the explore tab in either of its modes
\* (ExploreTabState::edit, ExploreTabState::exit_edit)
InitApp ==
    /\ lines = <<Placeholder>>
    /\ current_row = Fresh.current_row
    /\ cursor_column = Fresh.cursor_column
    /\ panicked = Fresh.panicked
    /\ last_op = NoOp
    /\ prev = Fresh
    /\ recording = FALSE
    /\ selected = "SQL"
    /\ should_quit = FALSE
    /\ editor_editable \in BOOLEAN
    /\ query = <<>>
    /\ tasks = <<>>
    /\ app_event_rx = <<>>
    /\ flightsql \in BOOLEAN
    /\ EditorNew
    /\ ExecutionNew
    /\ last_event = NoEvent
    /\ app_prev = App
    /\ CliNew(<<>>)

\* queries in flight: running, or sent and not yet handled
InFlight(app) == Len(app.tasks) + Len(app.app_event_rx)

\* the buffer is within the bounds of the model
FitsSql(app) ==
    /\ Len(app.input.lines) + TotalChars(app.input.lines) <= MaxSqlSize
    /\ app.input.cursor_column <= MaxSqlSize

\* the state becomes the App value r, produced by the event or step e
BecomesApp(r, e) ==
    /\ lines' = r.input.lines
    /\ current_row' = r.input.current_row
    /\ cursor_column' = r.input.cursor_column
    /\ panicked' = r.input.panicked
    /\ selected' = r.selected
    /\ should_quit' = r.should_quit
    /\ editor_editable' = r.editor_editable
    /\ query' = r.query
    /\ tasks' = r.tasks
    /\ app_event_rx' = r.app_event_rx
    /\ flightsql' = r.flightsql
    /\ sql_terminated' = r.sql_terminated
    /\ history' = r.history
    /\ flightsql_client' = r.flightsql_client
    /\ conn_tasks' = r.conn_tasks
    /\ last_event' = e
    /\ app_prev' = App
    /\ UNCHANGED <<last_op, prev, recording>>
    /\ UNCHANGED cli_vars

Handled(via, event) == [NoEvent EXCEPT !.via = via, !.event = event]

Stepped(task, outcome) ==
    [NoEvent EXCEPT !.via = "task", !.task = <<task>>, !.outcome = outcome]

\* the results a QueryResult event may carry
SampleQueries ==
    {Query(<<>>, "Some", "Some", "None", "measured"),
     Query(Placeholder, "None", "None", "Some", "measured")}

\* app_event_handler is given a key event
AppKey ==
    \E key \in Keys :
        LET r == app_event_handler(App, KeyEvent(key))
        IN  ~panicked /\ BecomesApp(r, Handled("app", KeyEvent(key)))

\* app_event_handler is given the result of a query
AppQueryResult ==
    \E q \in SampleQueries :
        LET r == app_event_handler(App, QueryResult(q))
        IN  ~panicked /\ BecomesApp(r, Handled("app", QueryResult(q)))

\* app_event_handler is given one of the other events
AppOther ==
    \E type \in {"Tick", "Error", "ExecuteDDL"} :
        LET r == app_event_handler(App, OtherEvent(type))
        IN  ~panicked /\ BecomesApp(r, Handled("app", OtherEvent(type)))

\* the keys given to the handler of the explore tab
TabKeys ==
    {Key(c) : c \in {"e", "c", "s", "Enter", "Esc", "Up", "Down", "Left",
                     "Right", "Tab", "Backspace", "PageUp"}}
        \cup {CtrlEnter}

\* the keys that submit a query or change the mode
SubmitKeys == {Key("Enter"), CtrlEnter, Key("e"), Key("Esc")}

\* explore_tab_app_event_handler is given a key event
TabKey ==
    \E key \in TabKeys :
        LET r == explore_tab_app_event_handler(App, KeyEvent(key))
        IN  /\ ~panicked
            /\ FitsSql(r)
            /\ InFlight(r) <= MaxPending
            /\ BecomesApp(r, Handled("tab", KeyEvent(key)))

\* explore_tab_app_event_handler is given one of the submitting keys
SubmitKey ==
    \E key \in SubmitKeys :
        LET r == explore_tab_app_event_handler(App, KeyEvent(key))
        IN  /\ ~panicked
            /\ FitsSql(r)
            /\ InFlight(r) <= MaxTasks
            /\ BecomesApp(r, Handled("tab", KeyEvent(key)))

\* explore_tab_app_event_handler is given the QueryResult that waited
\* longest on the channel
TabQueryResult ==
    /\ ~panicked
    /\ app_event_rx # <<>>
    /\ LET event == QueryResult(Head(app_event_rx))
           r == explore_tab_app_event_handler(
                    [App EXCEPT !.app_event_rx = Tail(@)], event)
       IN  BecomesApp(r, Handled("tab", event))

\* explore_tab_app_event_handler is given a tick or an error
TabOther ==
    \E type \in {"Tick", "Error"} :
        LET r == explore_tab_app_event_handler(App, OtherEvent(type))
        IN  ~panicked /\ BecomesApp(r, Handled("tab", OtherEvent(type)))

\* a query task runs to its end
RunTask ==
    \E i \in 1..Len(tasks), outcome \in Outcomes :
        LET r == run_task(App, i, outcome)
        IN  ~panicked /\ BecomesApp(r, Stepped(tasks[i], outcome))

\* the events given to app_event_handler
NextApp == AppKey \/ AppQueryResult \/ AppOther

SpecApp == InitApp /\ [][NextApp]_vars

\* every key given to the handler of the explore tab, with the queries it
\* submits and their results
NextTab == TabKey \/ TabQueryResult \/ TabOther \/ RunTask

SpecTab == InitTab /\ [][NextTab]_vars

\* the submitting keys given to the handler of the explore tab, with several
\* queries in flight
NextTask == SubmitKey \/ TabQueryResult \/ TabOther \/ RunTask

SpecTask == InitTab /\ [][NextTask]_vars

----------------------------------------------------------------------------
(* State machine of the edit mode *)

\* a new session in the edit mode: Editor::default()
InitEdit ==
    /\ lines = Fresh.lines
    /\ current_row = Fresh.current_row
    /\ cursor_column = Fresh.cursor_column
    /\ panicked = Fresh.panicked
    /\ last_op = NoOp
    /\ prev = Fresh
    /\ recording = FALSE
    /\ selected = "SQL"
    /\ should_quit = FALSE
    /\ editor_editable = TRUE
    /\ query = <<>>
    /\ tasks = <<>>
    /\ app_event_rx = <<>>
    /\ flightsql = FALSE
    /\ EditorNew
    /\ ExecutionNew
    /\ last_event = NoEvent
    /\ app_prev = App
    /\ CliNew(<<>>)

\* the keys given to edit_mode_handler
EditKeys ==
    {Key(c) : c \in {";", "e", "Enter", "Left", "Right", "Up", "Down", "Tab",
                     "Backspace", "Esc", "PageUp"}}

\* the buffer is within the bounds of the model
FitsEdit(app) ==
    /\ Len(app.input.lines) + TotalChars(app.input.lines) <= MaxEditSize
    /\ app.input.cursor_column <= MaxEditSize

\* edit_mode_handler is given a key while the editor is in the edit mode
EditKey ==
    \E key \in EditKeys :
        LET r == edit_mode_handler(App, key)
        IN  /\ ~panicked
            /\ editor_editable
            /\ FitsEdit(r)
            /\ BecomesApp(r, Handled("edit", KeyEvent(key)))

NextEdit == EditKey

SpecEdit == InitEdit /\ [][NextEdit]_vars

----------------------------------------------------------------------------
(* State machine of the FlightSQL connection *)

\* the application built with the feature "flightsql"
InitFlight ==
    /\ lines = <<Placeholder>>
    /\ current_row = Fresh.current_row
    /\ cursor_column = Fresh.cursor_column
    /\ panicked = Fresh.panicked
    /\ last_op = NoOp
    /\ prev = Fresh
    /\ recording = FALSE
    /\ selected = "SQL"
    /\ should_quit = FALSE
    /\ editor_editable = FALSE
    /\ query = <<>>
    /\ tasks = <<>>
    /\ app_event_rx = <<>>
    /\ flightsql = TRUE
    /\ EditorNew
    /\ ExecutionNew
    /\ last_event = NoEvent
    /\ app_prev = App
    /\ CliNew(<<>>)

\* a step of connection task i
ConnStepped(step, i, outcome) ==
    [NoEvent EXCEPT !.via = step, !.task = <<i>>, !.outcome = outcome]

\* app_event_handler is given EstablishFlightSQLConnection
Establish ==
    LET event == OtherEvent("EstablishFlightSQLConnection")
        r == app_event_handler(App, event)
    IN  /\ Len(conn_tasks) < MaxConnTasks
        /\ BecomesApp(r, Handled("app", event))

\* app_event_handler is given a tick or a change of tab
FlightOther ==
    \E event \in {OtherEvent("Tick"), KeyEvent(Key("f")), KeyEvent(Key("s"))} :
        LET r == app_event_handler(App, event)
        IN  BecomesApp(r, Handled("app", event))

\* the connect of a task ends
Connected ==
    \E i \in 1..Len(conn_tasks), outcome \in ConnectOutcomes :
        /\ conn_tasks[i] = "connect"
        /\ BecomesApp(connected(App, i, outcome),
                      ConnStepped("connected", i, outcome))

\* a task gets the mutex: it waits while another task holds it
Lock ==
    \E i \in 1..Len(conn_tasks) :
        /\ conn_tasks[i] = "lock"
        /\ flightsql_client.holder = <<>>
        /\ BecomesApp(lock(App, i), ConnStepped("lock", i, "None"))

\* the task that holds the mutex installs its client and lets go
Install ==
    \E i \in 1..Len(conn_tasks) :
        /\ conn_tasks[i] = "locked"
        /\ BecomesApp(install(App, i), ConnStepped("install", i, "None"))

NextFlight == Establish \/ FlightOther \/ Connected \/ Lock \/ Install

SpecFlight == InitFlight /\ [][NextFlight]_vars

----------------------------------------------------------------------------
(* State machine of the command line *)

\* the lists of -f values
ArgLists == UNION {[1..n -> Paths] : n \in 0..MaxArgs}

InitCli == New /\ recording = FALSE /\ \E args \in ArgLists : CliNew(args)

\* the process becomes r
BecomesCli(r) ==
    /\ cli_args' = r.args
    /\ cli_pc' = r.pc
    /\ cli_file' = r.file
    /\ cli_executed' = r.executed
    /\ cli_stdout' = r.stdout
    /\ cli_stderr' = r.stderr
    /\ cli_exit' = r.exit
    /\ UNCHANGED input_vars
    /\ UNCHANGED app_vars

\* one value of -f is validated
ParseFile ==
    /\ cli_pc = "parse"
    /\ Len(cli_file) < Len(cli_args)
    /\ BecomesCli(parse_file(Cli))

\* every value of -f was accepted
Parsed ==
    /\ cli_pc = "parse"
    /\ Len(cli_file) = Len(cli_args)
    /\ BecomesCli(parsed(Cli))

\* the next statement is executed
ExecuteStatement ==
    /\ cli_pc = "batch"
    /\ Len(cli_executed) < Len(Script(cli_file))
    /\ BecomesCli(execute_statement(Cli))

\* no statement is left
Finish ==
    /\ cli_pc = "batch"
    /\ Len(cli_executed) = Len(Script(cli_file))
    /\ BecomesCli(finish(Cli))

NextCli == ParseFile \/ Parsed \/ ExecuteStatement \/ Finish

SpecCli == InitCli /\ [][NextCli]_vars

----------------------------------------------------------------------------
(* Properties *)

Min(a, b) == IF a < b THEN a ELSE b

Max(a, b) == IF a > b THEN a ELSE b

\* the buffer an operation works on once append_char has made sure there is
\* a line
WithLine(in) == IF in.lines = <<>> THEN [in EXCEPT !.lines = << <<>> >>] ELSE in

\* s with c put in after its first k characters
InsertAfter(s, k, c) == SubSeq(s, 1, k) \o <<c>> \o SubSeq(s, k + 1, Len(s))

\* the numbers of leading characters of s that fill exactly col columns
AtColumn(s, col) == {k \in 0..Len(s) : StrWidth(SubSeq(s, 1, k)) = col}

\* the characters of the lines before row r (counted from 0)
Before(ls, r) == Concat(SubSeq(ls, 1, r))

\* C1: in every state reached by the operations of Input from the empty
\* buffer, lines is empty or 0 <= current_row < lines.len().
RowInvariant ==
    lines = <<>> \/ (0 <= current_row /\ current_row < Len(lines))

\* C1 witness: next_char has moved the cursor down to the last of three rows
RowInvariantWitness ==
    /\ last_op.op = "next_char"
    /\ current_row = prev.current_row + 1
    /\ Len(lines) = 3
    /\ current_row = Len(lines) - 1

\* C2 (as claimed): cursor_column <= display_width(lines[current_row])
\* whenever lines is not empty, and a change of current_row sets
\* cursor_column anew: to 0, to the width of the new line, or to the old
\* column clamped to that width.
ColumnInvariant ==
    RowInRange(Input) =>
        /\ cursor_column <= CurWidth(Input)
        /\ (current_row # prev.current_row /\ last_op.op # "new") =>
                cursor_column \in
                    {0, CurWidth(Input),
                     Min(prev.cursor_column, CurWidth(Input))}

\* C3 (as claimed): backspace never panics, and at row 0, column 0 it
\* changes nothing.
BackspaceNeverFails ==
    last_op.op = "backspace" =>
        /\ ~panicked
        /\ (prev.current_row = 0 /\ prev.cursor_column = 0) => Input = prev

\* C4 (as claimed): append_char(c), c neither '\n' nor '\t', does not panic,
\* works on one empty line when the buffer was empty, puts c into the
\* current line at the display position cursor_column, leaves every other
\* character where it was, and moves cursor_column on by 1.
AppendCharInserts ==
    (last_op.op = "append_char" /\ last_op.c \notin {NL, TAB}) =>
        LET base == WithLine(prev)
        IN  /\ ~panicked
            /\ current_row = base.current_row
            /\ cursor_column = base.cursor_column + 1
            /\ \E k \in AtColumn(CurLine(base), base.cursor_column) :
                    lines = [base.lines EXCEPT ![base.current_row + 1] =
                                InsertAfter(@, k, last_op.c)]

\* C5 (as claimed): append_char('\n') does not panic; the text is the old
\* text with one terminator put in at the cursor; the lines before the
\* current row and after it are the old ones, in order, with the new line
\* right after the current row; there is one line more, current_row is one
\* more and cursor_column is 0.
NewLineSplits ==
    (last_op.op = "append_char" /\ last_op.c = NL) =>
        LET base == WithLine(prev)
            r == base.current_row
        IN  /\ ~panicked
            /\ Len(lines) = Len(base.lines) + 1
            /\ current_row = r + 1
            /\ cursor_column = 0
            /\ SubSeq(lines, 1, r) = SubSeq(base.lines, 1, r)
            /\ SubSeq(lines, r + 3, Len(lines))
                    = SubSeq(base.lines, r + 2, Len(base.lines))
            /\ \E k \in AtColumn(CurLine(base), base.cursor_column) :
                    combine_lines(Input) =
                        InsertAfter(combine_lines(base),
                                    Len(Before(base.lines, r)) + k, NL)

\* the case of C6: the current line is empty, it is not the first, and the
\* line before it has text
OnEmptyLineAfterText(in) ==
    /\ RowInRange(in)
    /\ CurLine(in) = <<>>
    /\ in.current_row > 0
    /\ in.lines[in.current_row] \notin {<<>>, <<NL>>}

\* C6 (as claimed): backspace on an empty line after a non-empty one moves
\* the cursor to the end of the previous line, takes that line's terminator
\* away and merges the two lines: one line fewer, the empty line gone.
BackspaceMerges ==
    (last_op.op = "backspace" /\ OnEmptyLineAfterText(prev)) =>
        LET r == prev.current_row
            above == prev.lines[r]
            joined == IF above[Len(above)] = NL THEN StringPop(above) ELSE above
        IN  /\ ~panicked
            /\ current_row = r - 1
            /\ cursor_column = StrWidth(joined)
            /\ Len(lines) = Len(prev.lines) - 1
            /\ lines = SubSeq(prev.lines, 1, r - 1) \o <<joined>>
                        \o SubSeq(prev.lines, r + 2, Len(prev.lines))

RECURSIVE Ingested(_)
\* a file's text with each tab made four spaces and each line end, "\n" or
\* "\r\n", made one terminator
Ingested(s) ==
    IF s = <<>> THEN <<>>
    ELSE IF Head(s) = TAB THEN FourSpaces \o Ingested(Tail(s))
    ELSE IF Head(s) = CR /\ Len(s) >= 2 /\ s[2] = NL
         THEN Ingested(Tail(s))
    ELSE <<Head(s)>> \o Ingested(Tail(s))

\* that text, with a terminator after a last line that had none
Terminated(s) ==
    IF s = <<>> \/ s[Len(s)] = NL THEN Ingested(s) ELSE Append(Ingested(s), NL)

\* C7: after load_file has read a file, combine_lines() is the file's text
\* with every tab replaced by four spaces and every line of the file
\* followed by exactly one terminator, in the order of the file (a line of
\* the file ends at "\n" or "\r\n", as BufRead::lines reads it).
LoadRoundTrip ==
    last_op.op = "load_file" => combine_lines(Input) = Terminated(last_op.file)

\* C7 witness: a file of two lines with a tab and no final terminator
LoadRoundTripWitness ==
    /\ last_op.op = "load_file"
    /\ last_op.file = <<TAB, NL, "a">>
    /\ lines = <<FourSpaces \o <<NL>>, <<"a", NL>> >>

\* C8 (as claimed): load_file replaces the lines and resets the cursor to
\* row 0, column 0, and the row and column invariants hold after the load and
\* after every operation that follows.
LoadResetsCursor ==
    /\ last_op.op = "load_file" =>
            /\ lines = load_file(Fresh, last_op.file).lines
            /\ current_row = 0
            /\ cursor_column = 0
    /\ RowInvariant
    /\ RowInRange(Input) => cursor_column <= CurWidth(Input)

\* C9: after clear() the Input is the one of a new buffer: no lines, row 0,
\* column 0; combine_lines, combine_visible_lines and the cursor row and
\* column read as on a new buffer; clearing again changes nothing.
ClearIsFresh ==
    last_op.op = "clear" =>
        /\ Input = Fresh
        /\ combine_lines(Input) = combine_lines(Fresh)
        /\ ~visible_panics(Input)
        /\ combine_visible_lines(Input) = combine_visible_lines(Fresh)
        /\ get_cursor_row(Input) = get_cursor_row(Fresh)
        /\ get_cursor_column(Input) = get_cursor_column(Fresh)
        /\ clear(Input) = Input

\* C9 witness: clear has run on a buffer of several lines with the cursor
\* away from row 0, column 0
ClearIsFreshWitness ==
    /\ last_op.op = "clear"
    /\ Len(prev.lines) >= 2
    /\ prev.current_row > 0
    /\ prev.cursor_column > 0

\* what C10 and its amendment share: with current_row valid, the window is
\* read without a panic, it is the run of lines starting at index
\* max(0, current_row - 17), and current_row is in it, at the row
\* get_cursor_row gives.
VisibleWindowBase ==
    /\ ~visible_panics(Input)
    /\ visible_start(Input) = Max(0, current_row - MAX_EDITOR_LINES)
    /\ visible_lines(Input) =
            SubSeq(lines, visible_start(Input) + 1,
                   visible_start(Input) + Len(visible_lines(Input)))
    /\ visible_start(Input) <= current_row
    /\ current_row < visible_start(Input) + Len(visible_lines(Input))
    /\ current_row - visible_start(Input) = get_cursor_row(Input)

\* C10 (as claimed): moreover the window has exactly 17 + 1 lines whenever
\* the document has more than 17 lines, and is the whole document otherwise.
VisibleWindow ==
    RowInRange(Input) =>
        /\ VisibleWindowBase
        /\ Len(lines) > MAX_EDITOR_LINES =>
                Len(visible_lines(Input)) = MAX_EDITOR_LINES + 1
        /\ Len(lines) <= MAX_EDITOR_LINES => visible_lines(Input) = lines

\* C10 (amended): the window has exactly 17 + 1 lines when current_row > 17,
\* and is the whole document, however long, when current_row <= 17.
VisibleWindowAmended ==
    RowInRange(Input) =>
        /\ VisibleWindowBase
        /\ current_row > MAX_EDITOR_LINES =>
                Len(visible_lines(Input)) = MAX_EDITOR_LINES + 1
        /\ current_row <= MAX_EDITOR_LINES => visible_lines(Input) = lines

\* C10 witness: 20 lines, the cursor on line 19: the window starts at line 2
\* and has 18 lines
VisibleWindowWitness ==
    /\ Len(lines) = 20
    /\ current_row = 19
    /\ last_op.op = "down_row"
    /\ visible_start(Input) = 2
    /\ Len(visible_lines(Input)) = 18

\* line s ends with the terminator
EndsWithTerminator(s) == s # <<>> /\ s[Len(s)] = NL

\* C18 (as claimed): after every sequence of editing operations every line
\* except possibly the last one ends with the terminator, and the terminator
\* occurs only as the last character of a line.
TerminatorInvariant ==
    /\ \A i \in 1..(Len(lines) - 1) : EndsWithTerminator(lines[i])
    /\ \A i \in 1..Len(lines) :
            \A j \in 1..Len(lines[i]) : lines[i][j] = NL => j = Len(lines[i])

\* s with four spaces put in after its first k characters
SpacesAfter(s, k) == SubSeq(s, 1, k) \o FourSpaces \o SubSeq(s, k + 1, Len(s))

\* C19 (as claimed): append_char('\t') and tab() put four spaces into the
\* current line at the cursor, with the text before the cursor and the text
\* after it unchanged, and move cursor_column on by 4.
TabInsertsAtCursor ==
    (last_op.op = "tab" \/ (last_op.op = "append_char" /\ last_op.c = TAB)) =>
        LET base == WithLine(prev)
        IN  /\ ~panicked
            /\ current_row = base.current_row
            /\ cursor_column = base.cursor_column + 4
            /\ \E k \in AtColumn(CurLine(base), base.cursor_column) :
                    lines = [base.lines EXCEPT ![base.current_row + 1] =
                                SpacesAfter(@, k)]

\* C20 (as claimed): next_char changes nothing only on an empty buffer or at
\* the end of the last line; at the end of a line that is not the last it
\* moves to column 0 of the next row; before the end of the line it moves
\* cursor_column on by one.
NextCharCrossesLineEnd ==
    (last_op.op = "next_char" /\ RowInRange(prev)) =>
        /\ ~panicked
        /\ lines = prev.lines
        /\ (prev.cursor_column = CurWidth(prev) /\ ~on_last_line(prev)) =>
                /\ current_row = prev.current_row + 1
                /\ cursor_column = 0
        /\ prev.cursor_column < CurWidth(prev) =>
                /\ current_row = prev.current_row
                /\ cursor_column = prev.cursor_column + 1
        /\ Input = prev =>
                (prev.cursor_column = CurWidth(prev) /\ on_last_line(prev))

\* the event last handled was given to `via` ("app": app_event_handler,
\* "tab": explore_tab_app_event_handler) and was the key `key`
KeyHandled(via, key) ==
    last_event.via = via /\ last_event.event = KeyEvent(key)

\* C11 (as claimed): with the SQL tab selected and the editor not editable,
\* an Enter key given to app_event_handler spawns exactly one query task,
\* its text the editor's whole text at that moment, and the editor stays not
\* editable.
EnterSubmitsQuery ==
    (/\ KeyHandled("app", Key("Enter"))
     /\ app_prev.selected = "SQL"
     /\ ~app_prev.editor_editable) =>
        /\ Len(tasks) = Len(app_prev.tasks) + 1
        /\ SubSeq(tasks, 1, Len(app_prev.tasks)) = app_prev.tasks
        /\ tasks[Len(tasks)].sql = editor_text(app_prev)
        /\ ~editor_editable

\* C12 (as claimed): with the SQL tab selected and the editor editable, a key
\* other than Esc and control-Enter given to app_event_handler goes to the
\* text buffer; 'q', 's', 'l', 'x' and 'f' are inserted into the buffer and
\* neither set should_quit nor change the selected tab.
EditableKeysReachBuffer ==
    (/\ last_event.via = "app"
     /\ last_event.event.type = "Key"
     /\ last_event.event.key \notin {Key("Esc"), CtrlEnter}
     /\ app_prev.selected = "SQL"
     /\ app_prev.editor_editable) =>
        LET key == last_event.event.key
        IN  /\ App = update_editor_content(app_prev, key)
            /\ key.code \in {"q", "s", "l", "x", "f"} =>
                    /\ Input = append_char(app_prev.input, key.code)
                    /\ should_quit = app_prev.should_quit
                    /\ selected = app_prev.selected

\* C13: the editor of the explore tab is editable or not; it becomes
\* editable only by the key 'e' handled while it is not, and that key always
\* makes it so; it stops being editable only by Esc handled while it is, and
\* Esc always makes it so; every other event (Enter, control-Enter, a
\* QueryResult, a tick, any other key, the end of a task) leaves it as it is.
ModeTransitions ==
    /\ editor_editable \in BOOLEAN
    /\ last_event.via # "new" =>
        LET was == app_prev.editor_editable
        IN  /\ editor_editable # was =>
                    \/ ~was /\ KeyHandled("tab", Key("e"))
                    \/ was /\ KeyHandled("tab", Key("Esc"))
            /\ (~was /\ KeyHandled("tab", Key("e"))) => editor_editable
            /\ (was /\ KeyHandled("tab", Key("Esc"))) => ~editor_editable

\* C13 witness: Esc has ended an edit during which a query was submitted and
\* its result applied
ModeTransitionsWitness ==
    /\ KeyHandled("tab", Key("Esc"))
    /\ app_prev.editor_editable
    /\ ~editor_editable
    /\ query # <<>>
    /\ query[1].num_rows = "None"

\* C14 (as claimed): a query task that ends has sent exactly one QueryResult:
\* for the outcome "ok" one with rows and the elapsed time, for a failure of
\* ctx.sql or of collect one with an error and the elapsed time.
TaskSendsOneResult ==
    last_event.via = "task" =>
        /\ Len(app_event_rx) = Len(app_prev.app_event_rx) + 1
        /\ SubSeq(app_event_rx, 1, Len(app_prev.app_event_rx))
                = app_prev.app_event_rx
        /\ LET q == app_event_rx[Len(app_event_rx)]
           IN  /\ q.sql = last_event.task[1].sql
               /\ q.elapsed_time = "measured"
               /\ IF last_event.outcome = "ok"
                  THEN q.results = "Some" /\ q.error = "None"
                  ELSE q.results = "None" /\ q.error = "Some"

\* C15: the active query changes only when a QueryResult is handled; that
\* QueryResult is the one that waited longest, and right after it the active
\* query is the one it carried; the end of a task changes neither the
\* active query nor the buffer, the mode or the selected tab.
SlotSetOnlyByQueryResult ==
    last_event.via # "new" =>
        /\ query # app_prev.query => last_event.event.type = "QueryResult"
        /\ last_event.event.type = "QueryResult" =>
                /\ app_prev.app_event_rx # <<>>
                /\ last_event.event.query = <<Head(app_prev.app_event_rx)>>
                /\ app_event_rx = Tail(app_prev.app_event_rx)
                /\ query = last_event.event.query
        /\ last_event.via = "task" =>
                /\ query = app_prev.query
                /\ Input = app_prev.input
                /\ editor_editable = app_prev.editor_editable
                /\ selected = app_prev.selected

\* C15 witness: two different results waited, the active query was set
\* already; the older of the two is now the active query and the other one
\* waits
SlotSetOnlyByQueryResultWitness ==
    /\ last_event.event.type = "QueryResult"
    /\ Len(app_prev.app_event_rx) = 2
    /\ app_prev.app_event_rx[1] # app_prev.app_event_rx[2]
    /\ app_prev.query # <<>>
    /\ app_prev.query # query
    /\ query = <<app_prev.app_event_rx[1]>>
    /\ app_event_rx = <<app_prev.app_event_rx[2]>>

\* the -f values that parse_valid_file has to reject
Invalid == {i \in 1..Len(cli_args) : Disk(cli_args[i]).kind # "file"}

\* the error that names the path of the i-th value
Rejection(i) ==
    [message |-> IF Disk(cli_args[i]).kind = "missing"
                 THEN "File does not exist" ELSE "Exists but is not a file",
     path |-> cli_args[i]]

\* C16: no statement is executed before every -f value has been validated;
\* when one of the values is a path that does not exist or is not a regular
\* file, no statement of any file is ever executed, nothing is printed as a
\* result, and the process ends with exit code 2 and one error that names
\* such a path.
InvalidFileRejected ==
    /\ cli_executed # <<>> => (Invalid = {} /\ cli_file = cli_args)
    /\ Invalid # {} =>
            /\ cli_executed = <<>>
            /\ cli_stdout = <<>>
            /\ cli_pc \in {"parse", "exit"}
            /\ cli_pc = "exit" =>
                    /\ cli_exit = <<2>>
                    /\ \E i \in Invalid : cli_stderr = <<Rejection(i)>>

\* C16 witness: a valid file was listed before a missing one; the process
\* has ended with code 2 and has executed nothing
InvalidFileRejectedWitness ==
    /\ cli_args = <<"one.sql", "gone.sql">>
    /\ cli_file = <<"one.sql">>
    /\ cli_pc = "exit"
    /\ cli_exit = <<2>>
    /\ cli_executed = <<>>

\* the statements that fail, by their place in the script
Failing(script) == {i \in 1..Len(script) : ~script[i].ok}

\* the first place in the non-empty set of places
First(places) == CHOOSE i \in places : \A j \in places : i <= j

\* C17: in a batch run the statements executed are the first ones of the
\* script (files in the order of the arguments, statements in the order of
\* the file); only the last of them can have failed, and then the process
\* has ended with exit code 101; the results printed are those of the
\* statements that ran before it; the process ends with 101 right after the
\* first failing statement, and with 0 after the last statement when none
\* fails.
BatchStopsAtFirstFailure ==
    (cli_pc = "batch" \/ (cli_pc = "exit" /\ cli_exit # <<2>>)) =>
        LET script == Script(cli_file)
            done == Len(cli_executed)
            failed == done > 0 /\ ~cli_executed[done].ok
        IN  /\ done <= Len(script)
            /\ cli_executed = SubSeq(script, 1, done)
            /\ \A i \in 1..(done - 1) : script[i].ok
            /\ cli_stdout = SubSeq(script, 1, IF failed THEN done - 1 ELSE done)
            /\ failed => (cli_pc = "exit" /\ cli_exit = <<101>>)
            /\ cli_pc = "exit" =>
                    IF Failing(script) = {}
                    THEN cli_exit = <<0>> /\ done = Len(script)
                    ELSE cli_exit = <<101>> /\ done = First(Failing(script))

\* C17 witness: the second statement of the second file failed: the two
\* statements before it have printed their results, the one after it never
\* ran, the exit code is 101
BatchStopsAtFirstFailureWitness ==
    /\ cli_args = <<"one.sql", "bad.sql">>
    /\ cli_pc = "exit"
    /\ cli_exit = <<101>>
    /\ Len(cli_executed) = 3
    /\ Len(cli_stdout) = 2
    /\ Len(Script(cli_file)) = 4

\* C21 (as claimed): up_row and down_row never change the lines; when one of
\* them changes current_row the new cursor_column is the smaller of the old
\* cursor_column and the width of the new current line, also when the line
\* left is empty; up_row on the first row and down_row on the last row
\* change nothing.
RowMoveClampsColumn ==
    last_op.op \in {"up_row", "down_row"} =>
        /\ ~panicked
        /\ lines = prev.lines
        /\ current_row # prev.current_row =>
                cursor_column = Min(prev.cursor_column, CurWidth(Input))
        /\ (last_op.op = "up_row" /\ prev.current_row = 0) => Input = prev
        /\ (last_op.op = "down_row" /\ prev.lines # <<>> /\ on_last_line(prev))
                => Input = prev

\* the case of C22: the current line has text and the cursor is not at
\* column 0
InsideText(in) ==
    /\ RowInRange(in)
    /\ CurLine(in) # <<>>
    /\ in.cursor_column > 0

\* the numbers of leading characters of s that end at the cursor, with
\* cursor_column read as display columns, as characters or as bytes
BeforeCursor(s, col) ==
    {k \in 0..Len(s) :
        \/ StrWidth(SubSeq(s, 1, k)) = col
        \/ k = col
        \/ ByteOffset(s, k) = col}

\* C22 (as claimed): backspace on a line with text, cursor_column > 0, takes
\* away exactly the character right before the cursor, moves cursor_column
\* back by one and leaves current_row, the rest of the line and every other
\* line as they were.
BackspaceRemovesBefore ==
    (last_op.op = "backspace" /\ InsideText(prev)) =>
        /\ ~panicked
        /\ current_row = prev.current_row
        /\ cursor_column = prev.cursor_column - 1
        /\ \E k \in BeforeCursor(CurLine(prev), prev.cursor_column) :
                /\ k >= 1
                /\ lines = [prev.lines EXCEPT ![prev.current_row + 1] =
                                Without(@, k)]

\* the queries the application holds: running, sent, or active
Held(app) ==
    {app.tasks[i].sql : i \in 1..Len(app.tasks)}
        \cup {app.app_event_rx[i].sql : i \in 1..Len(app.app_event_rx)}
        \cup {app.query[i].sql : i \in 1..Len(app.query)}

\* C23: a query of the placeholder text is submitted only before every
\* query of the cleared editor; when the result of such an older query is
\* handled while the active query is the result of a newer one, the older
\* result becomes the active query: nothing discards it.
StaleResultOverwrites ==
    /\ (/\ last_event.via = "tab"
        /\ last_event.event.type = "Key"
        /\ Len(tasks) = Len(app_prev.tasks) + 1
        /\ tasks[Len(tasks)].sql = Placeholder)
            => Held(app_prev) \subseteq {Placeholder}
    /\ (/\ last_event.via = "tab"
        /\ last_event.event.type = "QueryResult"
        /\ app_prev.query # <<>>
        /\ SubmittedBefore(last_event.event.query[1], app_prev.query[1]))
            => query = last_event.event.query

\* C23 witness: A (the placeholder text) was submitted before B (the
\* cleared editor); B's result was applied first, A's result has just been
\* applied and is the active query
StaleResultOverwritesWitness ==
    /\ last_event.via = "tab"
    /\ last_event.event.type = "QueryResult"
    /\ app_prev.query # <<>>
    /\ app_prev.query[1].sql = <<>>
    /\ query # <<>>
    /\ query[1].sql = Placeholder
    /\ query = last_event.event.query

\* C27 (as claimed): a QueryResult given to app_event_handler becomes the
\* active query whatever tab is selected.
QueryResultAppliedOnAnyTab ==
    (last_event.via = "app" /\ last_event.event.type = "QueryResult") =>
        query = last_event.event.query

\* C25 (as claimed): handling a QueryResult appends exactly one entry to the
\* history and keeps the entries it had; nothing else changes the history.
HistoryAppendOnly ==
    last_event.via = "tab" =>
        IF last_event.event.type = "QueryResult"
        THEN /\ Len(history) = Len(app_prev.history) + 1
             /\ SubSeq(history, 1, Len(app_prev.history)) = app_prev.history
        ELSE history = app_prev.history

ConnAt(app, pc) == {i \in 1..Len(app.conn_tasks) : app.conn_tasks[i] = pc}

\* C24: the mutex of the client is held exactly by the one task that is
\* between lock() and the end of its match arm, so never by a task that
\* awaits connect(); the end of a connect takes no mutex and changes no
\* client, also when it fails; only the installing task changes the client;
\* and app_event_handler handles every event without touching the mutex or
\* the client, whoever holds the mutex.
LockOnlyToInstall ==
    /\ flightsql_client.holder = <<>> => ConnAt(App, "locked") = {}
    /\ flightsql_client.holder # <<>> =>
            ConnAt(App, "locked") = {flightsql_client.holder[1]}
    /\ last_event.via = "connected" =>
            /\ flightsql_client = app_prev.flightsql_client
            /\ conn_tasks[last_event.task[1]] =
                    (IF last_event.outcome = "Ok" THEN "lock" ELSE "done")
    /\ last_event.via = "lock" =>
            /\ app_prev.flightsql_client.holder = <<>>
            /\ flightsql_client.client = app_prev.flightsql_client.client
    /\ flightsql_client.client # app_prev.flightsql_client.client =>
            /\ last_event.via = "install"
            /\ app_prev.flightsql_client.holder = last_event.task
    /\ last_event.via = "app" =>
            flightsql_client = app_prev.flightsql_client

\* C24 witness: a connect has just failed while another task holds the
\* mutex and a client is installed: the client and the mutex are as before
LockOnlyToInstallWitness ==
    /\ last_event.via = "connected"
    /\ last_event.outcome = "Err"
    /\ flightsql_client.holder # <<>>
    /\ flightsql_client.client # <<>>
    /\ flightsql_client = app_prev.flightsql_client
    /\ ConnAt(App, "connect") = {}

\* C28: when reading a line fails in load_file, the lines, current_row and
\* cursor_column are exactly what they were before the call.
FailedLoadChangesNothing ==
    last_op.op = "load_file_err" =>
        /\ lines = prev.lines
        /\ current_row = prev.current_row
        /\ cursor_column = prev.cursor_column
        /\ ~panicked

\* C28 witness: the load failed in an editor that held two lines, typed or
\* loaded, with the cursor on the second row; all of it is still there
FailedLoadChangesNothingWitness ==
    /\ last_op.op = "load_file_err"
    /\ Len(prev.lines) = 2
    /\ prev.current_row = 1
    /\ lines = prev.lines
    /\ current_row = 1

====
